---- MODULE Spec2Model ----
(***************************************************************************)
(* pdf_table_extractor.py: extract_tables_from_pdf and its word-position   *)
(* core, group_text_into_rows followed by build_table_from_rows.           *)
(*                                                                         *)
(* A Python str is a sequence of one-character strings ("ab" is            *)
(* <<"a", "b">>), so that concatenation, strip() and truthiness are        *)
(* computed as Python computes them.  A word token is a record whose       *)
(* DOMAIN is the set of keys of the Python dict; a token that lacks a key  *)
(* is a record without that field, and reading the key raises KeyError.    *)
(***************************************************************************)
EXTENDS Integers, Sequences, FiniteSets

VARIABLES
    \* extract_tables_from_pdf
    pdf,               \* pdf.pages: what the two pdfplumber calls return per page
    page_num,          \* the loop variable of line 16 (0 before the first page)
    tables,            \* page.extract_tables() of the current page (line 18)
    extracted_tables,  \* the result list (line 13)
    origin,            \* history: for each entry of extracted_tables, the page
                       \* and the branch ("bordered" / "words") that appended it
    printed,           \* the page numbers of the messages of line 31, in order
    pc,                \* position in extract_tables_from_pdf
    \* the word-position core
    text_objs,         \* argument of group_text_into_rows
    tolerance,         \* argument of group_text_into_rows (default 3)
    rows,              \* the dict  y -> list of words  of lines 41-45
    sorted_rows,       \* the list returned at line 53 (the caller's `rows`)
    table,             \* the list returned by build_table_from_rows
    err,               \* "none", or the exception that ended the core
    cpc                \* position of a direct caller of the core

vars == <<pdf, page_num, tables, extracted_tables, origin, printed, pc,
          text_objs, tolerance, rows, sorted_rows, table, err, cpc>>

pipeVars == <<pdf, page_num, tables, extracted_tables, origin, printed, pc>>

(***************************************************************************)
(* Bounds and input domains.                                               *)
(***************************************************************************)
MaxTokens == 3     \* longest token list handed to the core
MaxPages == 2      \* most pages of a pdf

DefaultTolerance == 3
col_tolerance == 10

\* Python's None, as a value that is no str (its element is not a character).
None == <<"None">>

Space == " "
Texts == { <<"a">>, <<"b", "c">> }

\* (x0, x1) pairs: the gaps x0 - x1' between them take the values 10
\* (20 - 10), 11 (31 - 20), 21 (31 - 10) and negative ones.
Positions == { <<0, 10>>, <<20, 20>>, <<31, 41>> }

\* top / 2 is an exact half for 1 and 5; top / 3 never is.
Tops == {1, 4, 5}
Tolerances == {2, DefaultTolerance}

WellFormedTokens ==
    { [text |-> t, x0 |-> p[1], x1 |-> p[2], top |-> y] :
        t \in Texts, p \in Positions, y \in Tops }

\* One token per missing positional key.
MalformedTokens ==
    { [text |-> <<"a">>, x0 |-> 0, x1 |-> 10],
      [text |-> <<"a">>, x1 |-> 10, top |-> 4],
      [text |-> <<"a">>, x0 |-> 0, top |-> 4] }

Tokens == WellFormedTokens \cup MalformedTokens

SeqsUpTo(S, n) == UNION { [1..k -> S] : k \in 0..n }

(***************************************************************************)
(* str helpers                                                             *)
(***************************************************************************)
RECURSIVE LStrip(_)
LStrip(s) ==
    IF s # <<>> /\ Head(s) = Space THEN LStrip(Tail(s)) ELSE s

RECURSIVE RStrip(_)
RStrip(s) ==
    IF s # <<>> /\ s[Len(s)] = Space THEN RStrip(SubSeq(s, 1, Len(s) - 1)) ELSE s

\* str.strip(): leading and trailing whitespace removed.
Strip(s) == RStrip(LStrip(s))

\* bool(s) for a str
Truthy(s) == Len(s) > 0

(***************************************************************************)
(* group_text_into_rows                                                    *)
(***************************************************************************)
\* round(n / d) for integers n and d > 0: Python 3 rounds an exact half to
\* the even neighbour.  (\div is floor division and % is non-negative.)
RoundHalfUp(n, d) ==
    LET q == n \div d
        r == n % d
    IN  IF 2 * r < d THEN q ELSE q + 1

Round(n, d) ==
    LET q == n \div d
        r == n % d
    IN  IF 2 * r < d THEN q
        ELSE IF 2 * r > d THEN q + 1
        ELSE IF q % 2 = 0 THEN q ELSE q + 1

\* line 44
YKey(top, tol) == Round(top, tol) * tol

EmptyDict == [k \in {} |-> <<>>]

\* rows.setdefault(y, []).append(obj)
SetDefaultAppend(d, y, obj) ==
    IF y \in DOMAIN d
    THEN [d EXCEPT ![y] = Append(@, obj)]
    ELSE [k \in DOMAIN d \cup {y} |-> IF k = y THEN <<obj>> ELSE d[k]]

\* lines 41-45, on objects that all have 'top'
RECURSIVE Bucket(_, _, _, _)
Bucket(objs, tol, i, d) ==
    IF i > Len(objs) THEN d
    ELSE Bucket(objs, tol, i + 1,
                SetDefaultAppend(d, YKey(objs[i].top, tol), objs[i]))

\* sorted(rows.keys())
RECURSIVE SortedKeysDesc(_)
SortedKeysDesc(S) ==
    IF S = {} THEN <<>>
    ELSE LET m == CHOOSE x \in S : \A y \in S : x >= y
         IN  <<m>> \o SortedKeysDesc(S \ {m})

RECURSIVE SortedAsc(_)
SortedAsc(S) ==
    IF S = {} THEN <<>>
    ELSE LET m == CHOOSE x \in S : \A y \in S : x <= y
         IN  <<m>> \o SortedAsc(S \ {m})

SortedKeys(S) == SortedAsc(S)

\* One step of a stable sort by x0: w goes after every element whose x0 is
\* not greater.
RECURSIVE InsertByX0(_, _)
InsertByX0(s, w) ==
    IF s = <<>> THEN <<w>>
    ELSE IF s[Len(s)].x0 <= w.x0 THEN Append(s, w)
    ELSE Append(InsertByX0(SubSeq(s, 1, Len(s) - 1), w), s[Len(s)])

\* The same, but w goes before the elements with an equal x0 (not stable).
RECURSIVE InsertBeforeEqual(_, _)
InsertBeforeEqual(s, w) ==
    IF s = <<>> THEN <<w>>
    ELSE IF s[Len(s)].x0 < w.x0 THEN Append(s, w)
    ELSE Append(InsertBeforeEqual(SubSeq(s, 1, Len(s) - 1), w), s[Len(s)])

RECURSIVE SortFrom(_, _, _)
SortFrom(s, i, acc) ==
    IF i > Len(s) THEN acc ELSE SortFrom(s, i + 1, InsertByX0(acc, s[i]))

RECURSIVE UnstableSortFrom(_, _, _)
UnstableSortFrom(s, i, acc) ==
    IF i > Len(s) THEN acc
    ELSE UnstableSortFrom(s, i + 1, InsertBeforeEqual(acc, s[i]))

UnstableSortByX0(s) == UnstableSortFrom(s, 1, <<>>)

\* sorted(rows[y], key=lambda x: x['x0']), on objects that all have 'x0'
SortByX0(s) == SortFrom(s, 1, <<>>)

Raised(e) ==
    [err |-> e, rows |-> EmptyDict, sorted_rows |-> <<>>]

\* lines 41-53 when no key is missing
GroupRows(objs, tol) ==
    LET d == Bucket(objs, tol, 1, EmptyDict)
        keys == SortedKeys(DOMAIN d)
    IN  [err |-> "none",
         rows |-> d,
         sorted_rows |-> [i \in 1..Len(keys) |-> SortByX0(d[keys[i]])]]

HasPosition(obj) == {"top", "x0"} \subseteq DOMAIN obj

\* A clusterer that skips the tokens it cannot place instead of failing.
group_skipping_malformed(objs, tol) ==
    GroupRows(SelectSeq(objs, HasPosition), tol)

\* The dict `rows` after the loop of lines 42-45, the returned list, and the
\* exception if one was raised: obj['top'] at line 44, x['x0'] at line 51.
group_text_into_rows(objs, tol) ==
    IF \E i \in 1..Len(objs) : "top" \notin DOMAIN objs[i]
    THEN Raised("KeyError")
    ELSE IF \E i \in 1..Len(objs) : "x0" \notin DOMAIN objs[i]
    THEN [Raised("KeyError") EXCEPT !.rows = Bucket(objs, tol, 1, EmptyDict)]
    ELSE GroupRows(objs, tol)

(***************************************************************************)
(* build_table_from_rows                                                   *)
(***************************************************************************)
\* last_x is <<>> for Python's None and <<v>> for the number v.
IsNewCellAtTolerance(last_x, word) ==
    last_x = <<>> \/ word.x0 - last_x[1] >= col_tolerance

\* line 71
IsNewCell(last_x, word) ==
    last_x = <<>> \/ word.x0 - last_x[1] > col_tolerance

\* lines 72-73 and 78-79
FlushCell(row_data, current_cell) ==
    IF Truthy(current_cell)
    THEN Append(row_data, Strip(current_cell))
    ELSE row_data

\* The loop of lines 68-77 from word i on.  word['x0'] is read only when
\* last_x is not None; word['text'] and word['x1'] are read for every word.
RECURSIVE ScanRow(_, _, _, _, _)
ScanRow(row, i, row_data, current_cell, last_x) ==
    IF i > Len(row)
    THEN [err |-> "none", row_data |-> row_data, current_cell |-> current_cell]
    ELSE LET word == row[i] IN
         IF \/ last_x # <<>> /\ "x0" \notin DOMAIN word
            \/ "text" \notin DOMAIN word
            \/ "x1" \notin DOMAIN word
         THEN [err |-> "KeyError", row_data |-> row_data,
               current_cell |-> current_cell]
         ELSE IF IsNewCell(last_x, word)
         THEN ScanRow(row, i + 1, FlushCell(row_data, current_cell),
                      word.text \o <<Space>>, <<word.x1>>)
         ELSE ScanRow(row, i + 1, row_data,
                      current_cell \o word.text \o <<Space>>, <<word.x1>>)

\* The row's scan without the flush after the loop.
BuildRowNoFinalFlush(row) ==
    LET s == ScanRow(row, 1, <<>>, <<>>, <<>>)
    IN  IF s.err # "none"
        THEN [err |-> s.err, row_data |-> <<>>]
        ELSE [err |-> "none", row_data |-> s.row_data]

\* lines 63-79: one row's row_data
BuildRow(row) ==
    LET s == ScanRow(row, 1, <<>>, <<>>, <<>>)
    IN  IF s.err # "none"
        THEN [err |-> s.err, row_data |-> <<>>]
        ELSE [err |-> "none", row_data |-> FlushCell(s.row_data, s.current_cell)]

build_table_from_rows(rs) ==
    IF \E i \in 1..Len(rs) : BuildRow(rs[i]).err # "none"
    THEN [err |-> "KeyError", table |-> <<>>]
    ELSE [err |-> "none", table |-> [i \in 1..Len(rs) |-> BuildRow(rs[i]).row_data]]

(***************************************************************************)
(* A direct call of the core: group_text_into_rows(text_objs, tolerance),  *)
(* then build_table_from_rows on what it returned.                         *)
(***************************************************************************)
CoreInit ==
    /\ text_objs \in SeqsUpTo(Tokens, MaxTokens)
    /\ tolerance \in Tolerances
    /\ rows = EmptyDict
    /\ sorted_rows = <<>>
    /\ table = <<>>
    /\ err = "none"
    /\ cpc = "start"
    /\ pdf = <<>>
    /\ page_num = 0
    /\ tables = <<>>
    /\ extracted_tables = <<>>
    /\ origin = <<>>
    /\ printed = <<>>
    /\ pc = "idle"

CallGroup ==
    /\ cpc = "start"
    /\ LET g == group_text_into_rows(text_objs, tolerance) IN
        /\ rows' = g.rows
        /\ sorted_rows' = g.sorted_rows
        /\ err' = g.err
        /\ cpc' = IF g.err = "none" THEN "grouped" ELSE "raised"
    /\ UNCHANGED <<text_objs, tolerance, table>>
    /\ UNCHANGED pipeVars

CallBuild ==
    /\ cpc = "grouped"
    /\ LET b == build_table_from_rows(sorted_rows) IN
        /\ table' = b.table
        /\ err' = b.err
        /\ cpc' = IF b.err = "none" THEN "built" ELSE "raised"
    /\ UNCHANGED <<text_objs, tolerance, rows, sorted_rows>>
    /\ UNCHANGED pipeVars

CoreNext == CallGroup \/ CallBuild

CoreSpec == CoreInit /\ [][CoreNext]_vars

(***************************************************************************)
(* extract_tables_from_pdf                                                 *)
(***************************************************************************)
\* What pdfplumber hands back: a bordered table is a list of rows, a row a
\* list of cells, a cell a str or None.
A == <<"a">>
EmptyStr == <<>>
TableOfNone == << <<None, None>> >>
TableOfEmptyStr == << <<EmptyStr>> >>
TableOfText == << <<None>>, <<A, None>> >>
TableOfNoCells == << <<>> >>

BorderedResults ==
    { <<>>,
      <<TableOfNone>>,
      <<TableOfEmptyStr>>,
      <<TableOfNoCells>>,
      <<TableOfNone, TableOfText>>,
      <<TableOfText, TableOfEmptyStr>> }

\* page.extract_words() returns words that have all their keys.
Word(t, x0, x1, top) == [text |-> t, x0 |-> x0, x1 |-> x1, top |-> top]

WordLists ==
    { <<>>,
      <<Word(A, 0, 10, 4)>>,
      <<Word(<<"b", "c">>, 31, 41, 5), Word(A, 20, 20, 1), Word(A, 0, 10, 1)>> }

Pages == [tables : BorderedResults, words : WordLists]

\* line 19: `if tables:`
NotTables(t) == t = <<>>

IfTables(t) == t # <<>>

\* A filter that only asks for a row that has cells.
AnyRowWithCells(t) == \E r \in 1..Len(t) : t[r] # <<>>

\* line 21
KeepTable(t) ==
    \E r \in 1..Len(t) :
        /\ \E c \in 1..Len(t[r]) : t[r][c] # None
        /\ t[r] # <<>>

Prepend(list, x) == <<x>> \o list

\* list.append
AppendTable(list, x) == Append(list, x)

RECURSIVE AppendEach(_, _, _)
AppendEach(list, items, i) ==
    IF i > Len(items) THEN list
    ELSE AppendEach(AppendTable(list, items[i]), items, i + 1)

Init ==
    /\ pdf \in SeqsUpTo(Pages, MaxPages)
    /\ page_num = 0
    /\ tables = <<>>
    /\ extracted_tables = <<>>
    /\ origin = <<>>
    /\ printed = <<>>
    /\ pc = "loop"
    /\ text_objs = <<>>
    /\ tolerance = DefaultTolerance
    /\ rows = EmptyDict
    /\ sorted_rows = <<>>
    /\ table = <<>>
    /\ err = "none"
    /\ cpc = "idle"

\* lines 16-18: the next page, and the bordered detector on it
NextPage ==
    /\ pc = "loop"
    /\ page_num < Len(pdf)
    /\ page_num' = page_num + 1
    /\ tables' = pdf[page_num + 1].tables
    /\ pc' = "detected"
    /\ UNCHANGED <<pdf, extracted_tables, origin, printed>>
    /\ UNCHANGED <<text_objs, tolerance, rows, sorted_rows, table, err, cpc>>

\* lines 19-22
AppendBordered ==
    /\ pc = "detected"
    /\ IfTables(tables)
    /\ LET kept == SelectSeq(tables, KeepTable) IN
        /\ extracted_tables' = AppendEach(extracted_tables, kept, 1)
        /\ origin' = AppendEach(origin,
                [i \in 1..Len(kept) |-> [page |-> page_num, via |-> "bordered"]], 1)
    /\ pc' = "loop"
    /\ UNCHANGED <<pdf, page_num, tables, printed>>
    /\ UNCHANGED <<text_objs, tolerance, rows, sorted_rows, table, err, cpc>>

\* lines 23-26
Fallback ==
    /\ pc = "detected"
    /\ ~IfTables(tables)
    /\ text_objs' = pdf[page_num].words
    /\ LET g == group_text_into_rows(text_objs', tolerance) IN
        /\ rows' = g.rows
        /\ sorted_rows' = g.sorted_rows
        /\ err' = g.err
        /\ pc' = IF g.err = "none" THEN "fallback" ELSE "raised"
    /\ UNCHANGED <<pdf, page_num, tables, extracted_tables, origin, printed>>
    /\ UNCHANGED <<tolerance, table, cpc>>

\* lines 27-29
AppendFallback ==
    /\ pc = "fallback"
    /\ sorted_rows # <<>>
    /\ LET b == build_table_from_rows(sorted_rows) IN
        /\ table' = b.table
        /\ err' = b.err
        /\ IF b.err = "none"
           THEN /\ extracted_tables' = AppendTable(extracted_tables, b.table)
                /\ origin' = AppendTable(origin, [page |-> page_num, via |-> "words"])
                /\ pc' = "loop"
           ELSE /\ UNCHANGED <<extracted_tables, origin>>
                /\ pc' = "raised"
    /\ UNCHANGED <<pdf, page_num, tables, printed>>
    /\ UNCHANGED <<text_objs, tolerance, rows, sorted_rows, cpc>>

\* lines 30-31
ReportNoTable ==
    /\ pc = "fallback"
    /\ sorted_rows = <<>>
    /\ printed' = Append(printed, page_num)
    /\ pc' = "loop"
    /\ UNCHANGED <<pdf, page_num, tables, extracted_tables, origin>>
    /\ UNCHANGED <<text_objs, tolerance, rows, sorted_rows, table, err, cpc>>

\* line 33
Return ==
    /\ pc = "loop"
    /\ page_num = Len(pdf)
    /\ pc' = "done"
    /\ UNCHANGED <<pdf, page_num, tables, extracted_tables, origin, printed>>
    /\ UNCHANGED <<text_objs, tolerance, rows, sorted_rows, table, err, cpc>>

Next ==
    \/ NextPage
    \/ AppendBordered
    \/ Fallback
    \/ AppendFallback
    \/ ReportNoTable
    \/ Return

Spec == Init /\ [][Next]_vars

\* The loop is sequential code: a step that can be taken is taken.
FairSpec == Spec /\ WF_vars(Next)

(***************************************************************************)
(* Properties of the core, checked under CoreSpec.                         *)
(***************************************************************************)
Count(s, x) == Cardinality({i \in 1..Len(s) : s[i] = x})

Range(s) == {s[i] : i \in 1..Len(s)}

Abs(n) == IF n < 0 THEN -n ELSE n

\* The words of a str: its maximal runs of non-space characters.
RECURSIVE SplitWords(_, _)
SplitWords(s, word) ==
    IF s = <<>> THEN (IF word = <<>> THEN <<>> ELSE <<word>>)
    ELSE IF Head(s) = Space
    THEN (IF word = <<>> THEN <<>> ELSE <<word>>) \o SplitWords(Tail(s), <<>>)
    ELSE SplitWords(Tail(s), Append(word, Head(s)))

RECURSIVE Flatten(_)
Flatten(ss) == IF ss = <<>> THEN <<>> ELSE Head(ss) \o Flatten(Tail(ss))

\* The words of all cells of a row of the table, left to right.
RowWords(row_data) ==
    Flatten([c \in 1..Len(row_data) |-> SplitWords(row_data[c], <<>>)])

TableWords(t) == Flatten([r \in 1..Len(t) |-> RowWords(t[r])])

InputTexts == [i \in 1..Len(text_objs) |-> text_objs[i].text]

WellFormedInput ==
    \A i \in 1..Len(text_objs) : DOMAIN text_objs[i] = {"text", "x0", "x1", "top"}

\* C1: No token loss. Once group_text_into_rows and build_table_from_rows
\* have run on a list of tokens, every token's text is a word of exactly one
\* cell: each text occurs among the words of the table's cells as often as
\* among the input tokens, so the cells reference as many tokens as the
\* input holds; and a row with tokens ends in a cell that ends with its last
\* token (the trailing accumulator is flushed).
C1_NoTokenLoss ==
    cpc = "built" =>
        /\ Len(TableWords(table)) = Len(text_objs)
        /\ \A t \in Range(InputTexts) \cup Range(TableWords(table)) :
                Count(TableWords(table), t) = Count(InputTexts, t)
        /\ Len(table) = Len(sorted_rows)
        /\ \A r \in 1..Len(sorted_rows) :
                /\ Len(RowWords(table[r])) = Len(sorted_rows[r])
                /\ sorted_rows[r] # <<>> =>
                    /\ table[r] # <<>>
                    /\ LET last == table[r][Len(table[r])]
                           ws == SplitWords(last, <<>>)
                       IN  /\ ws # <<>>
                           /\ ws[Len(ws)] = sorted_rows[r][Len(sorted_rows[r])].text

\* A table of two rows built at tolerance 3 from three tokens, one row of
\* which has two cells.
C1_Witness ==
    /\ cpc = "built"
    /\ tolerance = 3
    /\ Len(text_objs) = 3
    /\ Len(table) = 2
    /\ \E r \in 1..Len(table) : Len(table[r]) = 2

\* The texts of row[a..b] joined by single spaces.
RECURSIVE JoinTexts(_, _, _)
JoinTexts(row, a, b) ==
    IF a > b THEN <<>>
    ELSE IF a = b THEN row[a].text
    ELSE row[a].text \o <<Space>> \o JoinTexts(row, a + 1, b)

\* The positions of a row that start a maximal run of gaps <= 10.
RunStarts(row) ==
    {k \in 1..Len(row) : k = 1 \/ row[k].x0 - row[k - 1].x1 > 10}

\* The cells the boundary rule gives for a row: one per run, in order.
CellsByGapRule(row) ==
    LET starts == RunStarts(row)
        StartOf(j) == CHOOSE k \in starts :
                          Cardinality({m \in starts : m < k}) = j - 1
        EndOf(j) == IF j = Cardinality(starts) THEN Len(row) ELSE StartOf(j + 1) - 1
    IN  [j \in 1..Cardinality(starts) |-> JoinTexts(row, StartOf(j), EndOf(j))]

\* C2: Cell boundary rule. In every row scanned by build_table_from_rows two
\* consecutive tokens share a cell iff x0 minus the previous x1 is <= 10, so
\* the row's cells are exactly its maximal runs of gaps <= 10, in order, each
\* the run's texts joined by single spaces with no trailing space.
C2_CellBoundaryRule ==
    cpc = "built" =>
        /\ Len(table) = Len(sorted_rows)
        /\ \A r \in 1..Len(sorted_rows) : table[r] = CellsByGapRule(sorted_rows[r])

\* A row in which a gap of exactly 10 merged two tokens into one cell and a
\* gap of exactly 11 started the next cell.
C2_Witness ==
    /\ cpc = "built"
    /\ \E r \in 1..Len(sorted_rows) :
        LET row == sorted_rows[r] IN
        /\ Len(row) = 3
        /\ row[2].x0 - row[1].x1 = 10
        /\ row[3].x0 - row[2].x1 = 11
        /\ Len(table[r]) = 2
        /\ table[r][1] = row[1].text \o <<Space>> \o row[2].text

Grouped == cpc \in {"grouped", "built"}

InputKeys == {YKey(text_objs[i].top, tolerance) : i \in 1..Len(text_objs)}

\* The bucket key of a non-empty row
RowKey(row) == YKey(row[1].top, tolerance)

\* C3: Row grouping and order. group_text_into_rows emits one row per
\* distinct bucket key, each row holds exactly the tokens with that key, and
\* the rows come in ascending key order; the table keeps one row per row.
C3_RowGroupingAndOrder ==
    Grouped =>
        /\ Len(sorted_rows) = Cardinality(InputKeys)
        /\ \A r \in 1..Len(sorted_rows) :
            LET row == sorted_rows[r] IN
            /\ row # <<>>
            /\ RowKey(row) \in InputKeys
            /\ \A k \in 1..Len(row) : YKey(row[k].top, tolerance) = RowKey(row)
            /\ \A u \in Range(text_objs) :
                Count(row, u) = IF YKey(u.top, tolerance) = RowKey(row)
                                THEN Count(text_objs, u) ELSE 0
            /\ r > 1 => RowKey(sorted_rows[r - 1]) < RowKey(row)
        /\ cpc = "built" => Len(table) = Len(sorted_rows)

\* Three rows, from tokens that arrived bottom row first.
C3_Witness ==
    /\ cpc = "built"
    /\ WellFormedInput
    /\ Len(sorted_rows) = 3
    /\ text_objs[1].top > text_objs[3].top

\* C4: Within-row order. Every emitted row is sorted ascending by x0, and
\* the tokens of a row that share an x0 are in their order of the input list.
C4_WithinRowOrder ==
    Grouped =>
        \A r \in 1..Len(sorted_rows) :
            LET row == sorted_rows[r] IN
            /\ \A k \in 2..Len(row) : row[k - 1].x0 <= row[k].x0
            /\ \A k \in 1..Len(row) :
                LET SameX0(u) == u.x0 = row[k].x0
                    InRowSameX0(u) ==
                        /\ YKey(u.top, tolerance) = RowKey(row)
                        /\ u.x0 = row[k].x0
                IN  SelectSeq(row, SameX0) = SelectSeq(text_objs, InRowSameX0)

\* A row whose input order was right to left and that holds two different
\* tokens with the same x0.
C4_Witness ==
    /\ Grouped
    /\ WellFormedInput
    /\ \E r \in 1..Len(sorted_rows) :
        LET row == sorted_rows[r] IN
        /\ Len(row) = 3
        /\ row[1].x0 = row[2].x0
        /\ row[1] # row[2]
        /\ text_objs[1] = row[3]
        /\ row[2].x0 < row[3].x0

Malformed(obj) == ~({"top", "x0", "x1"} \subseteq DOMAIN obj)

\* C7: Malformed token fails fast. If a token of the list lacks top, x0 or
\* x1, the core never reaches a built table: no table is returned, a list
\* the clusterer accepted makes the assembler raise, and the outcome the run
\* ends in is an error.
C7_MalformedFailsFast ==
    (\E i \in 1..Len(text_objs) : Malformed(text_objs[i])) =>
        /\ cpc # "built"
        /\ table = <<>>
        /\ cpc = "grouped" => build_table_from_rows(sorted_rows).err # "none"
        /\ cpc = "raised" => err = "KeyError"

\* The clusterer accepted the list and the assembler raised on a token
\* without x1.
C7_Witness ==
    /\ cpc = "raised"
    /\ err = "KeyError"
    /\ sorted_rows # <<>>
    /\ \E i \in 1..Len(text_objs) : "x1" \notin DOMAIN text_objs[i]

Usable(t) ==
    \E r \in 1..Len(t) : \E c \in 1..Len(t[r]) :
        t[r][c] # None /\ t[r][c] # EmptyStr

NoUsableTable(ts) == \A k \in 1..Len(ts) : ~Usable(ts[k])

\* The pages whose loop body has run to its end.
Completed == IF pc \in {"loop", "done"} THEN page_num ELSE page_num - 1

OriginPages == {origin[k].page : k \in 1..Len(origin)}

\* C5: Fallback gating. The word-position core runs for a page only after
\* the bordered detector ran on that page and returned no usable table: so
\* it is while the core's rows are examined, for every table the core
\* contributed, and for every page reported as having no table.
C5_FallbackGating ==
    /\ pc = "fallback" =>
        /\ tables = pdf[page_num].tables
        /\ NoUsableTable(tables)
    /\ \A k \in 1..Len(origin) :
        origin[k].via = "words" => NoUsableTable(pdf[origin[k].page].tables)
    /\ \A k \in 1..Len(printed) : NoUsableTable(pdf[printed[k]].tables)

\* The core ran on the second page, after the first page's bordered tables
\* were taken.
C5_Witness ==
    /\ pc = "fallback"
    /\ page_num = 2
    /\ sorted_rows # <<>>
    /\ \E k \in 1..Len(origin) : origin[k].via = "bordered"

\* C6: No-table reporting. Every page whose processing is over and that
\* contributed no table to extracted_tables had its "No table detected on
\* page N" message printed.
C6_EveryPageWithoutTableReported ==
    \A p \in 1..Completed :
        p \notin OriginPages => \E k \in 1..Len(printed) : printed[k] = p

IsPrefix(s, t) == Len(s) <= Len(t) /\ SubSeq(t, 1, Len(s)) = s

\* C8: Multi-page processing. The pages are visited one after the other and
\* the call returns, after the last page; a page without words and without
\* bordered tables contributes nothing and the loop goes on; the tables of
\* extracted_tables are grouped by page in page order, and a step only ever
\* adds tables at the end.
C8_State ==
    /\ Len(origin) = Len(extracted_tables)
    /\ \A k \in 1..Len(origin) : origin[k].page \in 1..page_num
    /\ \A k \in 2..Len(origin) : origin[k - 1].page <= origin[k].page
    /\ \A p \in 1..Completed :
        pdf[p].tables = <<>> /\ pdf[p].words = <<>> => p \notin OriginPages
    /\ pc = "done" => page_num = Len(pdf)
    /\ pc \in {"loop", "detected", "fallback", "done"}

C8_Step ==
    /\ page_num' \in {page_num, page_num + 1}
    /\ IsPrefix(extracted_tables, extracted_tables')
    /\ IsPrefix(origin, origin')

C8_MultiPage ==
    /\ []C8_State
    /\ [][C8_Step]_vars
    /\ <>(pc = "done")

\* The call returned a table of the second page after a first page that had
\* no words and no bordered tables.
C8_Witness ==
    /\ pc = "done"
    /\ Len(pdf) = 2
    /\ pdf[1].tables = <<>> /\ pdf[1].words = <<>>
    /\ printed = <<1>>
    /\ \E k \in 1..Len(origin) : origin[k].page = 2

HasNonNoneCell(t) ==
    \E r \in 1..Len(t) : \E c \in 1..Len(t[r]) : t[r][c] # None

\* C10 as amended: every table appended from the bordered detector has a row
\* with a cell that is not None; a bordered table whose cells are all None
\* (or that has no cells) is never appended, one whose cells are all empty
\* strings is.
C10_AppendedBorderedHasNonNoneCell ==
    \A k \in 1..Len(origin) :
        origin[k].via = "bordered" =>
            /\ HasNonNoneCell(extracted_tables[k])
            /\ \E j \in 1..Len(pdf[origin[k].page].tables) :
                pdf[origin[k].page].tables[j] = extracted_tables[k]

\* C10: every table appended from the bordered detector is usable: a row of
\* it has a cell that is neither None nor the empty str.
C10_AppendedBorderedUsable ==
    \A k \in 1..Len(origin) :
        origin[k].via = "bordered" => Usable(extracted_tables[k])

\* A page's all-None table was dropped and its table with text was appended.
C10_Witness ==
    /\ pc = "loop"
    /\ page_num = 1
    /\ pdf[1].tables = <<TableOfNone, TableOfText>>
    /\ extracted_tables = <<TableOfText>>
    /\ origin[1].via = "bordered"

====
